---------------------------- MODULE Spec2Model ----------------------------
(***************************************************************************)
(* Model of linbox/matrix/transpose.h: the class template TransposeMatrix  *)
(* and its three partial specialisations (RowColMatrixTag, RowMatrixTag,   *)
(* ColMatrixTag).  A TransposeMatrix object holds one reference _A to the  *)
(* matrix it wraps and forwards every call to it, entry operations with    *)
(* the two indices exchanged and row/column iterator accessors to the      *)
(* complementary accessor of the wrapped matrix.                           *)
(*                                                                         *)
(* The wrapped matrix type (dense or sparse storage) and the category      *)
(* traits of linbox/matrix/traits.h are not part of transpose.h; they are  *)
(* modelled at their interface (the Mat... and Category... definitions).   *)
(***************************************************************************)
EXTENDS Integers, Sequences, FiniteSets, TLC

\* Bounds of the model.
MaxDim == 2      \* largest row or column dimension of the wrapped matrix
MaxCells == 4    \* largest number of positions (rowdim * coldim)
MaxVal == 1      \* entry values are 0 .. MaxVal

Element == 0 .. MaxVal

\* The locations that can hold matrix data: "A" is the caller's matrix,
\* "tmp" is storage no code of transpose.h ever allocates.
Locs == {"A", "tmp"}
\* The TransposeMatrix objects of the program.
ViewIds == {"view", "copy", "view2"}

\* The four matrix categories the traits mechanism can hand to the Trait
\* parameter: the three tags the specialisations name, and any other.
Categories == {"Generic", "RowCol", "Row", "Col"}

VARIABLES category, mat, obj, last

vars == <<category, mat, obj, last>>

---------------------------------------------------------------------------
(* The wrapped matrix, at its interface.                                   *)

Positions(r, c) == (0 .. (r - 1)) \X (0 .. (c - 1))

\* A freshly constructed r x c matrix: no entry stored (sparse) or every
\* entry 0 (dense).
NewMatrix(r, c, sp) ==
    [rowdim |-> r, coldim |-> c, sparse |-> sp,
     data |-> [p \in Positions(r, c) |-> IF sp THEN <<>> ELSE <<0>>]]

\* Storage that holds no matrix.
Free == NewMatrix(0, 0, FALSE)

MatRowdim(M) == M.rowdim

MatColdim(M) == M.coldim

InRange(M, i, j) == <<i, j>> \in DOMAIN M.data

\* An index outside the matrix is outside the contract of every operation;
\* the operations are total so that it leaves the matrix alone.
MatSetEntry(M, i, j, a) ==
    IF InRange(M, i, j) THEN [M EXCEPT !.data[<<i, j>>] = <<a>>] ELSE M

MatEraseEntry(M, i, j) ==
    IF InRange(M, i, j) /\ M.sparse
    THEN [M EXCEPT !.data[<<i, j>>] = <<>>]
    ELSE M

\* getEntry (x, i, j): the boolean returned and the value of x afterwards.
MatGetEntry(M, x, i, j) ==
    IF InRange(M, i, j) /\ M.data[<<i, j>>] # <<>>
    THEN [ret |-> TRUE, x |-> M.data[<<i, j>>][1]]
    ELSE [ret |-> FALSE, x |-> x]

\* rowBegin () .. rowEnd (): the rows in ascending order, each a vector
\* indexed by column.
MatRows(M) ==
    [k \in 1 .. M.rowdim |-> [c \in 0 .. (M.coldim - 1) |-> M.data[<<k - 1, c>>]]]

\* colBegin () .. colEnd (): the columns in ascending order, each a vector
\* indexed by row.
MatCols(M) ==
    [k \in 1 .. M.coldim |-> [r \in 0 .. (M.rowdim - 1) |-> M.data[<<r, k - 1>>]]]

RECURSIVE RowMajor(_, _, _)
\* The stored entries from position (i, j) on, row by row.
RowMajor(M, i, j) ==
    IF i >= M.rowdim THEN <<>>
    ELSE IF j >= M.coldim THEN RowMajor(M, i + 1, 0)
    ELSE (IF M.data[<<i, j>>] = <<>> THEN <<>>
          ELSE <<[rowIndex |-> i, colIndex |-> j, value |-> M.data[<<i, j>>][1]]>>)
         \o RowMajor(M, i, j + 1)

\* rawIndexedBegin () .. rawIndexedEnd (): every stored entry with its
\* row and column index.
MatRawIndexed(M) == RowMajor(M, 0, 0)

\* rawBegin () .. rawEnd (): every stored entry, in the same order.
MatRaw(M) == [k \in 1 .. Len(MatRawIndexed(M)) |-> MatRawIndexed(M)[k].value]


---------------------------------------------------------------------------
(* The category traits, at their interface (linbox/matrix/traits.h).       *)

\* Whether a matrix type of this category has RowIterator / ColIterator.
CategoryHasRowIterator(c) == c \in {"Generic", "RowCol", "Row"}

CategoryHasColIterator(c) == c \in {"Generic", "RowCol", "Col"}

\* MatrixIteratorTypes<Category>::MatrixCategory: the tag that selects the
\* specialisation; a category that is none of the three tags selects the
\* primary template.
MatrixIteratorTypes(c) == IF c \in {"RowCol", "Row", "Col"} THEN c ELSE "Generic"

---------------------------------------------------------------------------
(* TransposeMatrix objects.  An object is its Trait (which of the four     *)
(* class bodies it is an instance of) and its reference member _A: a       *)
(* location of matrix data or the name of another TransposeMatrix.         *)

NoView == [Trait |-> "none", _A |-> "none"]

Present(o, id) == o[id] # NoView

\* Calls made on the wrapped object _A; its static type decides what runs.
RECURSIVE call_rowdim(_, _, _)
RECURSIVE call_coldim(_, _, _)
RECURSIVE call_setEntry(_, _, _, _, _, _)
RECURSIVE call_eraseEntry(_, _, _, _, _)
RECURSIVE call_getEntry(_, _, _, _, _, _)
RECURSIVE call_rowBegin(_, _, _)
RECURSIVE call_colBegin(_, _, _)
RECURSIVE call_rawBegin(_, _, _)
RECURSIVE call_rawIndexedBegin(_, _, _)

(* Primary template (lines 58-200). *)

Generic_ctor(m, A) == [V |-> [Trait |-> "Generic", _A |-> A], mat |-> m]

\* A copy that holds the matrix by value: the data is duplicated into
\* storage of its own.
Generic_copy_by_value(m, M) ==
    [V |-> [Trait |-> "Generic", _A |-> "tmp"], mat |-> [m EXCEPT !["tmp"] = m[M._A]]]

Generic_copy(m, M) == [V |-> [Trait |-> "Generic", _A |-> M._A], mat |-> m]

Generic_rowdim(o, m, V) == call_coldim(o, m, V._A)

Generic_coldim(o, m, V) == call_rowdim(o, m, V._A)

Generic_setEntry(o, m, V, i, j, a_ij) == call_setEntry(o, m, V._A, j, i, a_ij)

\* eraseEntry forwarded with the indices as given.
Generic_eraseEntry_unswapped(o, m, V, i, j) == call_eraseEntry(o, m, V._A, i, j)

Generic_eraseEntry(o, m, V, i, j) == call_eraseEntry(o, m, V._A, j, i)

Generic_getEntry(o, m, V, x, i, j) == call_getEntry(o, m, V._A, x, j, i)

\* rowBegin () .. rowEnd (): the sequence the iterator pair ranges over.
Generic_rowBegin(o, m, V) == call_colBegin(o, m, V._A)

\* colBegin () .. colEnd ().
Generic_colBegin(o, m, V) == call_rowBegin(o, m, V._A)

\* rawBegin () .. rawEnd ().
Generic_rawBegin(o, m, V) == call_rawBegin(o, m, V._A)

\* An indexed range that reports the indices in the view's frame.
Generic_rawIndexedBegin_swapped(o, m, V) ==
    LET S == call_rawIndexedBegin(o, m, V._A)
    IN [k \in 1 .. Len(S) |->
           [rowIndex |-> S[k].colIndex, colIndex |-> S[k].rowIndex, value |-> S[k].value]]

\* rawIndexedBegin () .. rawIndexedEnd ().
Generic_rawIndexedBegin(o, m, V) == call_rawIndexedBegin(o, m, V._A)

(* Specialisation for RowColMatrixTag (lines 204-260). *)

RowCol_ctor(m, A) == [V |-> [Trait |-> "RowCol", _A |-> A], mat |-> m]

RowCol_copy(m, M) == [V |-> [Trait |-> "RowCol", _A |-> M._A], mat |-> m]

\* rowdim forwarded to the same dimension.
RowCol_rowdim_unswapped(o, m, V) == call_rowdim(o, m, V._A)

RowCol_rowdim(o, m, V) == call_coldim(o, m, V._A)

RowCol_coldim(o, m, V) == call_rowdim(o, m, V._A)

RowCol_setEntry(o, m, V, i, j, a_ij) == call_setEntry(o, m, V._A, j, i, a_ij)

RowCol_getEntry(o, m, V, x, i, j) == call_getEntry(o, m, V._A, x, j, i)

\* rowBegin () .. rowEnd (): the sequence the iterator pair ranges over.
RowCol_rowBegin(o, m, V) == call_colBegin(o, m, V._A)

\* colBegin () .. colEnd ().
RowCol_colBegin(o, m, V) == call_rowBegin(o, m, V._A)

\* rawBegin () .. rawEnd ().
RowCol_rawBegin(o, m, V) == call_rawBegin(o, m, V._A)

\* rawIndexedBegin () .. rawIndexedEnd ().
RowCol_rawIndexedBegin(o, m, V) == call_rawIndexedBegin(o, m, V._A)

\* typedef ... MatrixCategory: the category the view declares for itself.
RowCol_MatrixCategory == "RowCol"

(* Specialisation for RowMatrixTag (lines 264-313). *)

Row_ctor(m, A) == [V |-> [Trait |-> "Row", _A |-> A], mat |-> m]

Row_copy(m, M) == [V |-> [Trait |-> "Row", _A |-> M._A], mat |-> m]

Row_rowdim(o, m, V) == call_coldim(o, m, V._A)

Row_coldim(o, m, V) == call_rowdim(o, m, V._A)

\* setEntry forwarded with the indices as given.
Row_setEntry_unswapped(o, m, V, i, j, a_ij) == call_setEntry(o, m, V._A, i, j, a_ij)

Row_setEntry(o, m, V, i, j, a_ij) == call_setEntry(o, m, V._A, j, i, a_ij)

Row_getEntry(o, m, V, x, i, j) == call_getEntry(o, m, V._A, x, j, i)

\* colBegin () .. colEnd ().
Row_colBegin(o, m, V) == call_rowBegin(o, m, V._A)

\* rawBegin () .. rawEnd ().
Row_rawBegin(o, m, V) == call_rawBegin(o, m, V._A)

\* rawIndexedBegin () .. rawIndexedEnd ().
Row_rawIndexedBegin(o, m, V) == call_rawIndexedBegin(o, m, V._A)

\* The category of the RowColMatrixTag specialisation, pasted unchanged.
Row_MatrixCategory_pasted == "RowCol"

Row_MatrixCategory == "Col"

(* Specialisation for ColMatrixTag (lines 317-364). *)

Col_ctor(m, A) == [V |-> [Trait |-> "Col", _A |-> A], mat |-> m]

Col_copy(m, M) == [V |-> [Trait |-> "Col", _A |-> M._A], mat |-> m]

Col_rowdim(o, m, V) == call_coldim(o, m, V._A)

Col_coldim(o, m, V) == call_rowdim(o, m, V._A)

Col_setEntry(o, m, V, i, j, a_ij) == call_setEntry(o, m, V._A, j, i, a_ij)

\* getEntry forwarded with the indices as given.
Col_getEntry_unswapped(o, m, V, x, i, j) == call_getEntry(o, m, V._A, x, i, j)

Col_getEntry(o, m, V, x, i, j) == call_getEntry(o, m, V._A, x, j, i)

\* rowBegin forwarded to the same accessor.
Col_rowBegin_unswapped(o, m, V) == call_rowBegin(o, m, V._A)

\* rowBegin () .. rowEnd (): the sequence the iterator pair ranges over.
Col_rowBegin(o, m, V) == call_colBegin(o, m, V._A)

\* rawBegin () .. rawEnd ().
Col_rawBegin(o, m, V) == call_rawBegin(o, m, V._A)

\* rawIndexedBegin () .. rawIndexedEnd ().
Col_rawIndexedBegin(o, m, V) == call_rawIndexedBegin(o, m, V._A)

Col_MatrixCategory == "Row"

\* Which members each class body declares: eraseEntry only in the primary
\* template, no rowBegin/rowEnd in the RowMatrixTag specialisation, no
\* colBegin/colEnd in the ColMatrixTag specialisation.
has_eraseEntry(T) == T = "Generic"

has_rowBegin(T) == T \in {"Generic", "RowCol", "Col"}

\* colBegin/colEnd declared in every class body.
has_colBegin_everywhere(T) == T \in {"Generic", "RowCol", "Row", "Col"}

has_colBegin(T) == T \in {"Generic", "RowCol", "Row"}

\* The member _A is a Matrix & in three class bodies and a const Matrix &
\* in the ColMatrixTag specialisation.
A_is_const(T) == T = "Col"

\* The category a TransposeMatrix type declares.  The primary template
\* declares none, which leaves it with no specific tag.
MatrixCategory(T) ==
    CASE T = "RowCol" -> RowCol_MatrixCategory
      [] T = "Row" -> Row_MatrixCategory
      [] T = "Col" -> Col_MatrixCategory
      [] OTHER -> "Generic"

(* Dispatch on the static type of the object named by ref. *)

call_rowdim(o, m, ref) ==
    IF ref \in Locs THEN MatRowdim(m[ref])
    ELSE CASE o[ref].Trait = "Generic" -> Generic_rowdim(o, m, o[ref])
           [] o[ref].Trait = "RowCol" -> RowCol_rowdim(o, m, o[ref])
           [] o[ref].Trait = "Row" -> Row_rowdim(o, m, o[ref])
           [] o[ref].Trait = "Col" -> Col_rowdim(o, m, o[ref])

call_coldim(o, m, ref) ==
    IF ref \in Locs THEN MatColdim(m[ref])
    ELSE CASE o[ref].Trait = "Generic" -> Generic_coldim(o, m, o[ref])
           [] o[ref].Trait = "RowCol" -> RowCol_coldim(o, m, o[ref])
           [] o[ref].Trait = "Row" -> Row_coldim(o, m, o[ref])
           [] o[ref].Trait = "Col" -> Col_coldim(o, m, o[ref])

\* The matrix data after the call.
call_setEntry(o, m, ref, i, j, a) ==
    IF ref \in Locs THEN [m EXCEPT ![ref] = MatSetEntry(@, i, j, a)]
    ELSE CASE o[ref].Trait = "Generic" -> Generic_setEntry(o, m, o[ref], i, j, a)
           [] o[ref].Trait = "RowCol" -> RowCol_setEntry(o, m, o[ref], i, j, a)
           [] o[ref].Trait = "Row" -> Row_setEntry(o, m, o[ref], i, j, a)
           [] o[ref].Trait = "Col" -> Col_setEntry(o, m, o[ref], i, j, a)

call_eraseEntry(o, m, ref, i, j) ==
    IF ref \in Locs THEN [m EXCEPT ![ref] = MatEraseEntry(@, i, j)]
    ELSE CASE o[ref].Trait = "Generic" -> Generic_eraseEntry(o, m, o[ref], i, j)

call_getEntry(o, m, ref, x, i, j) ==
    IF ref \in Locs THEN MatGetEntry(m[ref], x, i, j)
    ELSE CASE o[ref].Trait = "Generic" -> Generic_getEntry(o, m, o[ref], x, i, j)
           [] o[ref].Trait = "RowCol" -> RowCol_getEntry(o, m, o[ref], x, i, j)
           [] o[ref].Trait = "Row" -> Row_getEntry(o, m, o[ref], x, i, j)
           [] o[ref].Trait = "Col" -> Col_getEntry(o, m, o[ref], x, i, j)


\* A range over an object whose class body has no such accessor is never
\* asked for; the dispatch answers it with the empty range.
call_rowBegin(o, m, ref) ==
    IF ref \in Locs THEN MatRows(m[ref])
    ELSE CASE o[ref].Trait = "Generic" -> Generic_rowBegin(o, m, o[ref])
           [] o[ref].Trait = "RowCol" -> RowCol_rowBegin(o, m, o[ref])
           [] o[ref].Trait = "Col" -> Col_rowBegin(o, m, o[ref])
           [] OTHER -> <<>>

call_colBegin(o, m, ref) ==
    IF ref \in Locs THEN MatCols(m[ref])
    ELSE CASE o[ref].Trait = "Generic" -> Generic_colBegin(o, m, o[ref])
           [] o[ref].Trait = "RowCol" -> RowCol_colBegin(o, m, o[ref])
           [] o[ref].Trait = "Row" -> Row_colBegin(o, m, o[ref])
           [] OTHER -> <<>>

call_rawBegin(o, m, ref) ==
    IF ref \in Locs THEN MatRaw(m[ref])
    ELSE CASE o[ref].Trait = "Generic" -> Generic_rawBegin(o, m, o[ref])
           [] o[ref].Trait = "RowCol" -> RowCol_rawBegin(o, m, o[ref])
           [] o[ref].Trait = "Row" -> Row_rawBegin(o, m, o[ref])
           [] o[ref].Trait = "Col" -> Col_rawBegin(o, m, o[ref])

call_rawIndexedBegin(o, m, ref) ==
    IF ref \in Locs THEN MatRawIndexed(m[ref])
    ELSE CASE o[ref].Trait = "Generic" -> Generic_rawIndexedBegin(o, m, o[ref])
           [] o[ref].Trait = "RowCol" -> RowCol_rawIndexedBegin(o, m, o[ref])
           [] o[ref].Trait = "Row" -> Row_rawIndexedBegin(o, m, o[ref])
           [] o[ref].Trait = "Col" -> Col_rawIndexedBegin(o, m, o[ref])

\* MatrixTraits<Matrix>::MatrixCategory of the type of the object named by
\* ref: the caller's matrix has the category its type was given, a
\* TransposeMatrix the one it declares.
MatrixTraits(o, c, ref) == IF ref \in Locs THEN c ELSE MatrixCategory(o[ref].Trait)

\* The default template argument Trait of TransposeMatrix<Matrix>.
Trait(o, c, ref) == MatrixIteratorTypes(MatrixTraits(o, c, ref))

\* TransposeMatrix<Matrix> (A): the constructor of the class body Trait
\* selects.  The result is the new object and the matrix data afterwards.
ctor(T, m, A) ==
    CASE T = "Generic" -> Generic_ctor(m, A)
      [] T = "RowCol" -> RowCol_ctor(m, A)
      [] T = "Row" -> Row_ctor(m, A)
      [] T = "Col" -> Col_ctor(m, A)

\* TransposeMatrix (const TransposeMatrix &M).
copy(m, M) ==
    CASE M.Trait = "Generic" -> Generic_copy(m, M)
      [] M.Trait = "RowCol" -> RowCol_copy(m, M)
      [] M.Trait = "Row" -> Row_copy(m, M)
      [] M.Trait = "Col" -> Col_copy(m, M)

RECURSIVE can_setEntry(_, _)
\* Whether setEntry can be called on the object named by ref.  setEntry is
\* a non-const member of every TransposeMatrix class body, so it cannot be
\* called through the const reference of the ColMatrixTag specialisation
\* when that wraps a TransposeMatrix; whether the caller's matrix type
\* allows it is that type's business.
can_setEntry(o, ref) ==
    IF ref \in Locs THEN TRUE
    ELSE /\ ~(A_is_const(o[ref].Trait) /\ o[ref]._A \notin Locs)
         /\ can_setEntry(o, o[ref]._A)

\* eraseEntry exists only in the primary template, whose _A is not const.
can_eraseEntry(o, ref) == ref \notin Locs /\ has_eraseEntry(o[ref].Trait)

---------------------------------------------------------------------------
(* The program: a caller's matrix A of some category, TransposeMatrix      *)
(* objects over it, and calls made on A directly and through the objects.  *)
(* last records the most recent call, its arguments and what it returned.  *)

Call(op, id, i, j, a, ret, x, out) ==
    [op |-> op, id |-> id, i |-> i, j |-> j, a |-> a, ret |-> ret, x |-> x, out |-> out]

Idle == Call("none", "none", 0, 0, 0, FALSE, 0, <<>>)

\* The matrices a caller can have constructed, within the bounds.
InitMatrices ==
    {NewMatrix(r, c, sp) : <<r, c, sp>> \in
        {t \in (1 .. MaxDim) \X (1 .. MaxDim) \X BOOLEAN : t[1] * t[2] <= MaxCells}}

NoViews == [id \in ViewIds |-> NoView]

\* The object TransposeMatrix<...> (ref) constructs in the state (o, m).
Constructed(o, m, ref) == ctor(Trait(o, category, ref), m, ref)

\* A caller's matrix and no TransposeMatrix yet.
InitBare ==
    /\ category \in Categories
    /\ \E M \in InitMatrices : mat = [l \in Locs |-> IF l = "A" THEN M ELSE Free]
    /\ obj = NoViews
    /\ last = Idle

\* A caller's matrix A, view = TransposeMatrix (A) and
\* view2 = TransposeMatrix (view).
Init ==
    /\ category \in Categories
    /\ \E M \in InitMatrices :
         LET m0 == [l \in Locs |-> IF l = "A" THEN M ELSE Free]
             c1 == Constructed(NoViews, m0, "A")
             o1 == [NoViews EXCEPT !["view"] = c1.V]
             c2 == Constructed(o1, c1.mat, "view")
         IN /\ obj = [o1 EXCEPT !["view2"] = c2.V]
            /\ mat = c2.mat
    /\ last = Idle

\* The valid indices of the object named by ref, from its own dimensions.
RowIndices(o, m, ref) == 0 .. (call_rowdim(o, m, ref) - 1)

ColIndices(o, m, ref) == 0 .. (call_coldim(o, m, ref) - 1)

(* Calls made directly on the caller's matrix. *)

DirectSetEntry ==
    \E i \in RowIndices(obj, mat, "A"), j \in ColIndices(obj, mat, "A"), a \in Element :
        /\ mat' = call_setEntry(obj, mat, "A", i, j, a)
        /\ last' = Call("A.setEntry", "A", 0, 0, 0, FALSE, 0, <<>>)
        /\ UNCHANGED <<category, obj>>

DirectEraseEntry ==
    \E i \in RowIndices(obj, mat, "A"), j \in ColIndices(obj, mat, "A") :
        /\ mat' = call_eraseEntry(obj, mat, "A", i, j)
        /\ last' = Call("A.eraseEntry", "A", 0, 0, 0, FALSE, 0, <<>>)
        /\ UNCHANGED <<category, obj>>

(* Calls made on a TransposeMatrix object. *)

ViewDims ==
    \E id \in ViewIds :
        /\ Present(obj, id)
        /\ last' = Call("dims", id, call_rowdim(obj, mat, id), call_coldim(obj, mat, id),
                        0, FALSE, 0, <<>>)
        /\ UNCHANGED <<category, mat, obj>>

ViewSetEntry ==
    \E id \in ViewIds :
        /\ Present(obj, id)
        /\ can_setEntry(obj, id)
        /\ \E i \in RowIndices(obj, mat, id), j \in ColIndices(obj, mat, id), a \in Element :
              /\ mat' = call_setEntry(obj, mat, id, i, j, a)
              /\ last' = Call("setEntry", id, i, j, a, FALSE, 0, <<>>)
        /\ UNCHANGED <<category, obj>>

ViewEraseEntry ==
    \E id \in ViewIds :
        /\ Present(obj, id)
        /\ can_eraseEntry(obj, id)
        /\ \E i \in RowIndices(obj, mat, id), j \in ColIndices(obj, mat, id) :
              /\ mat' = call_eraseEntry(obj, mat, id, i, j)
              /\ last' = Call("eraseEntry", id, i, j, 0, FALSE, 0, <<>>)
        /\ UNCHANGED <<category, obj>>

ViewGetEntry ==
    \E id \in ViewIds :
        /\ Present(obj, id)
        /\ \E i \in RowIndices(obj, mat, id), j \in ColIndices(obj, mat, id), x \in Element :
              LET r == call_getEntry(obj, mat, id, x, i, j)
              IN last' = Call("getEntry", id, i, j, x, r.ret, r.x, <<>>)
        /\ UNCHANGED <<category, mat, obj>>

ViewRows ==
    \E id \in ViewIds :
        /\ Present(obj, id)
        /\ has_rowBegin(obj[id].Trait)
        /\ last' = Call("rows", id, 0, 0, 0, FALSE, 0, call_rowBegin(obj, mat, id))
        /\ UNCHANGED <<category, mat, obj>>

ViewCols ==
    \E id \in ViewIds :
        /\ Present(obj, id)
        /\ has_colBegin(obj[id].Trait)
        /\ last' = Call("cols", id, 0, 0, 0, FALSE, 0, call_colBegin(obj, mat, id))
        /\ UNCHANGED <<category, mat, obj>>

ViewRaw ==
    \E id \in ViewIds :
        /\ Present(obj, id)
        /\ last' = Call("raw", id, 0, 0, 0, FALSE, 0, call_rawBegin(obj, mat, id))
        /\ UNCHANGED <<category, mat, obj>>

ViewRawIndexed ==
    \E id \in ViewIds :
        /\ Present(obj, id)
        /\ last' = Call("rawIndexed", id, 0, 0, 0, FALSE, 0, call_rawIndexedBegin(obj, mat, id))
        /\ UNCHANGED <<category, mat, obj>>

(* Construction, copy construction and destruction of a view. *)

ConstructView ==
    /\ ~Present(obj, "view")
    /\ LET c == Constructed(obj, mat, "A")
       IN /\ obj' = [obj EXCEPT !["view"] = c.V]
          /\ mat' = c.mat
    /\ last' = Call("ctor", "view", 0, 0, 0, FALSE, 0, <<>>)
    /\ UNCHANGED category

CopyConstruct ==
    /\ Present(obj, "view")
    /\ ~Present(obj, "copy")
    /\ LET c == copy(mat, obj["view"])
       IN /\ obj' = [obj EXCEPT !["copy"] = c.V]
          /\ mat' = c.mat
    /\ last' = Call("copy", "copy", 0, 0, 0, FALSE, 0, <<>>)
    /\ UNCHANGED category

\* The classes declare no destructor: a view that goes away takes nothing
\* with it.  A view another view wraps outlives that view.
Discard ==
    \E id \in ViewIds :
        /\ Present(obj, id)
        /\ \A w \in ViewIds : obj[w]._A # id
        /\ obj' = [obj EXCEPT ![id] = NoView]
        /\ last' = Call("dtor", id, 0, 0, 0, FALSE, 0, <<>>)
        /\ UNCHANGED <<category, mat>>

Calls ==
    \/ DirectSetEntry
    \/ DirectEraseEntry
    \/ ViewDims
    \/ ViewSetEntry
    \/ ViewEraseEntry
    \/ ViewGetEntry
    \/ ViewRows
    \/ ViewCols
    \/ ViewRaw
    \/ ViewRawIndexed

Next == Calls

Spec == Init /\ [][Next]_vars

\* Views constructed, copied and discarded while entries are written and
\* erased through them and directly.
NextAlias ==
    \/ ConstructView
    \/ CopyConstruct
    \/ Discard
    \/ DirectSetEntry
    \/ DirectEraseEntry
    \/ ViewSetEntry
    \/ ViewEraseEntry

SpecAlias == InitBare /\ [][NextAlias]_vars

---------------------------------------------------------------------------
(* Properties.                                                             *)

\* The caller's matrix.
Wrapped == mat["A"]

\* Whether the last call was op made on the object id.
Did(op, id) == last.op = op /\ last.id = id

WillHaveDone(op, id) == last'.op = op /\ last'.id = id

\* After view.setEntry (i, j, v), the wrapped matrix reports (j, i) present
\* with value v.
C1_Read ==
    Did("setEntry", "view") =>
        \A x \in Element :
            MatGetEntry(Wrapped, x, last.j, last.i) = [ret |-> TRUE, x |-> last.a]

\* view.setEntry (i, j, v) leaves the wrapped matrix as wrapped.setEntry
\* (j, i, v) would: same dimensions, no other entry changed.
C1_Effect ==
    WillHaveDone("setEntry", "view") =>
        /\ mat'["A"] = MatSetEntry(Wrapped, last'.j, last'.i, last'.a)
        /\ mat'["A"].rowdim = Wrapped.rowdim
        /\ mat'["A"].coldim = Wrapped.coldim
        /\ \A p \in DOMAIN Wrapped.data :
              p # <<last'.j, last'.i>> => mat'["A"].data[p] = Wrapped.data[p]

\* C1: in every variant, view.setEntry (i, j, v) makes wrapped (j, i)
\* present with value v and has exactly the effect of wrapped.setEntry
\* (j, i, v).
C1_SetEntryThroughView == [](C1_Read) /\ [][C1_Effect]_vars

\* A write through the view off the diagonal of a 2 x 2 matrix.
C1_Witness ==
    /\ Did("setEntry", "view")
    /\ last.i # last.j
    /\ last.a = 1
    /\ Wrapped.rowdim = 2 /\ Wrapped.coldim = 2

\* C2: in every reachable state and for all valid (i, j),
\* view.getEntry (x, i, j) returns what wrapped.getEntry (x, j, i) returns:
\* the same boolean, the same value in x when true, x untouched when false.
C2_GetEntryAgrees ==
    /\ \A i \in RowIndices(obj, mat, "view"), j \in ColIndices(obj, mat, "view"), x \in Element :
          LET r == call_getEntry(obj, mat, "view", x, i, j)
          IN /\ r = MatGetEntry(Wrapped, x, j, i)
             /\ r.ret = (Wrapped.data[<<j, i>>] # <<>>)
             /\ r.ret => r.x = Wrapped.data[<<j, i>>][1]
             /\ ~r.ret => r.x = x
    /\ Did("getEntry", "view") =>
          /\ [ret |-> last.ret, x |-> last.x] = MatGetEntry(Wrapped, last.a, last.j, last.i)
          /\ ~last.ret => last.x = last.a

\* A read through the view of an absent entry, whose transposed position is
\* present, that left x = 1 alone.
C2_Witness ==
    /\ Did("getEntry", "view")
    /\ ~last.ret
    /\ last.x = 1
    /\ last.i # last.j
    /\ MatGetEntry(Wrapped, 0, last.i, last.j).ret

\* The dimensions of the view are those of the wrapped matrix, exchanged.
C3_Dims ==
    /\ call_rowdim(obj, mat, "view") = MatColdim(Wrapped)
    /\ call_coldim(obj, mat, "view") = MatRowdim(Wrapped)
    /\ Did("dims", "view") => last.i = Wrapped.coldim /\ last.j = Wrapped.rowdim

\* C3: in every reachable state view.rowdim () is the wrapped matrix's
\* coldim () and view.coldim () its rowdim (), and the two queries change
\* nothing in the wrapped matrix.
C3_DimensionsSwapped ==
    [](C3_Dims) /\ [][WillHaveDone("dims", "view") => mat' = mat]_vars

\* The dimensions of a view over a matrix that is not square, asked after
\* an entry was written.
C3_Witness ==
    /\ Did("dims", "view")
    /\ last.i # last.j
    /\ \E p \in DOMAIN Wrapped.data : Wrapped.data[p] = <<1>>

\* After view.eraseEntry (i, j): on sparse storage view.getEntry (x, i, j)
\* returns false, on dense storage it returns true.
C4_Read ==
    Did("eraseEntry", "view") =>
        \A x \in Element :
            call_getEntry(obj, mat, "view", x, last.i, last.j).ret = ~Wrapped.sparse

\* view.eraseEntry (i, j) on sparse storage removes wrapped (j, i) and
\* touches nothing else; on dense storage it changes nothing, so the value
\* read afterwards is the one held before.
C4_Effect ==
    WillHaveDone("eraseEntry", "view") =>
        /\ Wrapped.sparse =>
              mat' = [mat EXCEPT !["A"].data[<<last'.j, last'.i>>] = <<>>]
        /\ ~Wrapped.sparse =>
              /\ mat' = mat
              /\ \A x \in Element :
                    call_getEntry(obj', mat', "view", x, last'.i, last'.j)
                        = call_getEntry(obj, mat, "view", x, last'.i, last'.j)

\* C4: erase through the view removes the stored entry at wrapped (j, i)
\* of a sparse matrix (no-op if absent, nothing else affected), after which
\* view.getEntry (x, i, j) returns false; on a dense matrix the same
\* sequence returns true with the value held before the erase.
C4_EraseThroughView == [](C4_Read) /\ [][C4_Effect]_vars

\* An erase through the view, off the diagonal of a sparse matrix, that
\* left the entry at the transposed position stored.
C4_Witness ==
    /\ Did("eraseEntry", "view")
    /\ Wrapped.sparse
    /\ last.i # last.j
    /\ MatGetEntry(Wrapped, 0, last.i, last.j).ret

\* view2 = TransposeMatrix (view) declares the category of A and reads A
\* with the indices as given.
C5_Same ==
    /\ MatrixTraits(obj, category, "view2") = category
    /\ has_rowBegin(obj["view2"].Trait) <=> CategoryHasRowIterator(category)
    /\ has_colBegin(obj["view2"].Trait) <=> CategoryHasColIterator(category)
    /\ call_rowdim(obj, mat, "view2") = MatRowdim(Wrapped)
    /\ call_coldim(obj, mat, "view2") = MatColdim(Wrapped)
    /\ \A i \in RowIndices(obj, mat, "A"), j \in ColIndices(obj, mat, "A"), x \in Element :
          call_getEntry(obj, mat, "view2", x, i, j) = MatGetEntry(Wrapped, x, i, j)
    /\ Did("getEntry", "view2") =>
          [ret |-> last.ret, x |-> last.x] = MatGetEntry(Wrapped, last.a, last.i, last.j)

\* A write or an erase through view2 at (i, j) is the same call on A.
C5_Effect ==
    /\ WillHaveDone("setEntry", "view2") =>
          mat' = [mat EXCEPT !["A"] = MatSetEntry(@, last'.i, last'.j, last'.a)]
    /\ WillHaveDone("eraseEntry", "view2") =>
          mat' = [mat EXCEPT !["A"] = MatEraseEntry(@, last'.i, last'.j)]

Complement(c) ==
    CASE c = "Row" -> "Col"
      [] c = "Col" -> "Row"
      [] OTHER -> c

\* What a view exposes and declares, against the category of what it wraps.
C6_Complement ==
    \A id \in ViewIds :
        Present(obj, id) =>
            LET T == obj[id].Trait
                c == MatrixTraits(obj, category, obj[id]._A)
            IN /\ has_rowBegin(T) <=> CategoryHasColIterator(c)
               /\ has_colBegin(T) <=> CategoryHasRowIterator(c)
               /\ MatrixCategory(T) = Complement(c)
               /\ CategoryHasRowIterator(MatrixCategory(T)) <=> has_rowBegin(T)
               /\ CategoryHasColIterator(MatrixCategory(T)) <=> has_colBegin(T)
               /\ T = MatrixIteratorTypes(c)

\* A view that stays keeps its variant.
C6_Fixed ==
    \A id \in ViewIds :
        Present(obj, id) /\ Present(obj', id) => obj'[id].Trait = obj[id].Trait

\* C6: capability complement: a view exposes rowBegin/rowEnd iff the
\* wrapped category has column iteration and colBegin/colEnd iff it has row
\* iteration, the category it declares is the complement of the wrapped
\* one, and its variant is fixed at construction and never changes.
C6_CapabilityComplement == [](C6_Complement) /\ [][C6_Fixed]_vars

\* A view and its copy over a column-only matrix, after a write through
\* the copy: both expose rows and no columns.
C6_Witness ==
    /\ Present(obj, "view") /\ Present(obj, "copy")
    /\ category = "Col"
    /\ Did("setEntry", "copy")
    /\ has_rowBegin(obj["copy"].Trait) /\ ~has_colBegin(obj["copy"].Trait)

\* A vector of the matrix read as the entries of row k of the view: entry j
\* of the vector is what view.getEntry (x, k, j) reports.
IsViewRow(vec, k) ==
    /\ DOMAIN vec = ColIndices(obj, mat, "view")
    /\ \A j \in ColIndices(obj, mat, "view"), x \in Element :
          LET r == call_getEntry(obj, mat, "view", x, k, j)
          IN IF vec[j] = <<>> THEN ~r.ret ELSE r.ret /\ r.x = vec[j][1]

IsViewCol(vec, k) ==
    /\ DOMAIN vec = RowIndices(obj, mat, "view")
    /\ \A i \in RowIndices(obj, mat, "view"), x \in Element :
          LET r == call_getEntry(obj, mat, "view", x, i, k)
          IN IF vec[i] = <<>> THEN ~r.ret ELSE r.ret /\ r.x = vec[i][1]

\* C7: in every reachable state view.rowBegin () .. rowEnd () is the
\* sequence wrapped.colBegin () .. colEnd (), vector for vector in
\* ascending order, and view.colBegin () .. colEnd () is wrapped.rowBegin ()
\* .. rowEnd (); the k-th row of the view holds the entries view (k, j),
\* and a traversal started again gives the same result.
C7_Traversal ==
    /\ has_rowBegin(obj["view"].Trait) =>
          LET R == call_rowBegin(obj, mat, "view")
          IN /\ R = MatCols(Wrapped)
             /\ Len(R) = call_rowdim(obj, mat, "view")
             /\ \A k \in 1 .. Len(R) : IsViewRow(R[k], k - 1)
             /\ Did("rows", "view") => last.out = R
    /\ has_colBegin(obj["view"].Trait) =>
          LET C == call_colBegin(obj, mat, "view")
          IN /\ C = MatRows(Wrapped)
             /\ Len(C) = call_coldim(obj, mat, "view")
             /\ \A k \in 1 .. Len(C) : IsViewCol(C[k], k - 1)
             /\ Did("cols", "view") => last.out = C

\* The rows of a view over a 2 x 2 matrix whose rows are not its columns.
C7_Witness ==
    /\ Did("rows", "view")
    /\ Len(last.out) = 2
    /\ last.out[1] # last.out[2]
    /\ MatRows(Wrapped) # MatCols(Wrapped)
    /\ Wrapped.rowdim = 2

\* C8: all four variants share one operation contract that includes
\* eraseEntry: every view offers eraseEntry (i, j), alongside setEntry,
\* getEntry and the dimension queries.
C8_EraseEntryInEveryVariant ==
    \A id \in ViewIds :
        Present(obj, id) => has_eraseEntry(obj[id].Trait)

\* C9: raw and raw-indexed traversal through the view visits the entries
\* the wrapped matrix's own traversal visits, in the same order, and each
\* indexed element reports its indices in the wrapped matrix's frame: an
\* entry readable as view (i, j) is reported with rowIndex = j and
\* colIndex = i.
C9_RawTraversal ==
    LET raw == call_rawBegin(obj, mat, "view")
        ind == call_rawIndexedBegin(obj, mat, "view")
    IN /\ raw = MatRaw(Wrapped)
       /\ ind = MatRawIndexed(Wrapped)
       /\ Len(raw) = Len(ind)
       /\ \A k \in 1 .. Len(ind), x \in Element :
             /\ raw[k] = ind[k].value
             /\ call_getEntry(obj, mat, "view", x, ind[k].colIndex, ind[k].rowIndex)
                    = [ret |-> TRUE, x |-> ind[k].value]
             /\ MatGetEntry(Wrapped, x, ind[k].rowIndex, ind[k].colIndex)
                    = [ret |-> TRUE, x |-> ind[k].value]
       /\ \A i \in RowIndices(obj, mat, "view"), j \in ColIndices(obj, mat, "view") :
             LET r == call_getEntry(obj, mat, "view", 0, i, j)
             IN r.ret =>
                   \E k \in 1 .. Len(ind) :
                       ind[k] = [rowIndex |-> j, colIndex |-> i, value |-> r.x]
       /\ Did("raw", "view") => last.out = raw
       /\ Did("rawIndexed", "view") => last.out = ind

\* An indexed traversal through the view that met an entry off the
\* diagonal whose transposed position holds no entry.
C9_Witness ==
    /\ Did("rawIndexed", "view")
    /\ \E k \in 1 .. Len(last.out) :
          /\ last.out[k].rowIndex # last.out[k].colIndex
          /\ ~MatGetEntry(Wrapped, 0, last.out[k].colIndex, last.out[k].rowIndex).ret

\* A view and its copy read the wrapped matrix; no storage holds a second
\* matrix.
C10_Agree ==
    /\ mat["tmp"] = Free
    /\ \A id \in {"view", "copy"} :
          Present(obj, id) =>
              /\ obj[id]._A = "A"
              /\ \A i \in RowIndices(obj, mat, id), j \in ColIndices(obj, mat, id), x \in Element :
                    call_getEntry(obj, mat, id, x, i, j) = MatGetEntry(Wrapped, x, j, i)
    /\ Present(obj, "view") /\ Present(obj, "copy") =>
          /\ obj["copy"] = obj["view"]
          /\ \A i \in RowIndices(obj, mat, "view"), j \in ColIndices(obj, mat, "view"), x \in Element :
                call_getEntry(obj, mat, "view", x, i, j) = call_getEntry(obj, mat, "copy", x, i, j)

\* Constructing, copying or discarding a view leaves the matrix data alone.
C10_Lifetime == obj' # obj => mat' = mat

\* C10: a view and a copy-constructed copy of it refer to the same wrapped
\* matrix: under any interleaving of writes and erases through the view,
\* through the copy or directly, view (i, j) = copy (i, j) = wrapped (j, i);
\* constructing, copying or discarding a view leaves the wrapped matrix
\* unchanged.
C10_Aliasing == [](C10_Agree) /\ [][C10_Lifetime]_vars

\* A view and its copy, after a write through the view off the diagonal
\* that the copy reads back.
C10_Witness ==
    /\ Present(obj, "view") /\ Present(obj, "copy")
    /\ Did("setEntry", "view")
    /\ last.i # last.j
    /\ call_getEntry(obj, mat, "copy", 0, last.i, last.j) = [ret |-> TRUE, x |-> 1]
    /\ ~call_getEntry(obj, mat, "copy", 0, last.j, last.i).ret

=============================================================================
